---- MODULE Spec2Model ----
(***************************************************************************)
(* matplotkit.taylor.TaylorDiagram: construction of a Taylor diagram.      *)
(*                                                                         *)
(* The constructor runs __init__ -> step_up(ax) -> plot_sample().  The     *)
(* model follows it statement group by statement group; every call made on *)
(* matplotlib is appended to `log`, the figures' axes lists are `figs`,    *)
(* the supplied axes' visibility is `axisOn`.                              *)
(*                                                                         *)
(* Numbers.  Every quantity the code compares (a standard deviation, the   *)
(* scale, a radius, Smax) is a non-negative real or NaN/inf.  It is held   *)
(* as the reduced fraction [n, d] of its SQUARE, so that sqrt never has to *)
(* be taken: x <= y iff x^2 <= y^2 for x, y >= 0.  d = 0 encodes the       *)
(* IEEE specials: [0,0] is NaN and [1,0] is +inf.  Floating-point rounding *)
(* is not modelled.                                                        *)
(*                                                                         *)
(* matplotlib itself is outside the repository.  Whether it refuses a NaN  *)
(* or infinite axis limit depends on its version: libStrict is chosen once *)
(* and never changes.  pkwargs is forwarded verbatim to every plot call    *)
(* and is left out.  A figure holds one supplied axes, named by the        *)
(* figure's number.                                                        *)
(***************************************************************************)
EXTENDS Integers, Sequences, FiniteSets, TLC

\* ------------------------------------------------------------- bounds
\* longest series drawn as an input
MaxLen == 3
\* most sample columns in the enumerated collections
MaxSamples == 2
\* most constructor calls in one run
MaxCalls == 3

\* ------------------------------------------------------------ numbers
RECURSIVE GCD(_, _)
GCD(a, b) == IF b = 0 THEN a ELSE GCD(b, a % b)

NaN == [n |-> 0, d |-> 0]
Inf == [n |-> 1, d |-> 0]
One == [n |-> 1, d |-> 1]
Zero == [n |-> 0, d |-> 1]

\* the value whose square is n/d (n, d >= 0)
Frac(n, d) ==
    IF d = 0 THEN (IF n = 0 THEN NaN ELSE Inf)
    ELSE LET g == GCD(n, d) IN [n |-> n \div g, d |-> d \div g]

IsNaN(a) == a.d = 0 /\ a.n = 0
IsFinite(a) == a.d # 0

\* IEEE product and quotient of two non-negative values
Mul(a, b) == Frac(a.n * b.n, a.d * b.d)
Div(a, b) == Frac(a.n * b.d, a.d * b.n)

\* IEEE a > b and a <= b: every comparison with NaN is false
Gt(a, b) ==
    IF IsNaN(a) \/ IsNaN(b) THEN FALSE
    ELSE IF a.d = 0 THEN b.d # 0
    ELSE IF b.d = 0 THEN FALSE
    ELSE a.n * b.d > b.n * a.d
Le(a, b) ==
    IF IsNaN(a) \/ IsNaN(b) THEN FALSE
    ELSE IF b.d = 0 THEN TRUE
    ELSE IF a.d = 0 THEN FALSE
    ELSE a.n * b.d <= b.n * a.d

\* Python's builtin max over a non-empty list: keep the first item, replace
\* it only by a later item that compares greater (so a NaN is never
\* replaced when it comes first and never chosen when it comes later)
RECURSIVE PyMaxFrom(_, _, _)
PyMaxFrom(xs, i, cur) ==
    IF i > Len(xs) THEN cur
    ELSE PyMaxFrom(xs, i + 1, IF Gt(xs[i], cur) THEN xs[i] ELSE cur)
PyMax(xs) == PyMaxFrom(xs, 2, xs[1])

Min2(a, b) == IF a < b THEN a ELSE b

\* ------------------------------------------------- pandas statistics
RECURSIVE SumTo(_, _)
SumTo(x, k) == IF k = 0 THEN 0 ELSE x[k] + SumTo(x, k - 1)
RECURSIVE DotTo(_, _, _)
DotTo(x, y, k) == IF k = 0 THEN 0 ELSE x[k] * y[k] + DotTo(x, y, k - 1)

\* m * sum(x*y) - sum(x)*sum(y) over the first m positions
CovNum(x, y, m) == m * DotTo(x, y, m) - SumTo(x, m) * SumTo(y, m)

\* Series.std(): sample standard deviation (ddof = 1); NaN below two values
Std(x) ==
    LET L == Len(x) IN
    IF L < 2 THEN NaN ELSE Frac(CovNum(x, x, L), L * (L - 1))

\* Series.corr(other, method="pearson"): the two series are aligned on
\* their (default, positional) index, so the first min(len) positions are
\* used; the result is r as [s, q]: its sign and its absolute value
Corr(x, y) ==
    LET m == Min2(Len(x), Len(y))
        vx == CovNum(x, x, m)
        vy == CovNum(y, y, m)
        c == CovNum(x, y, m)
    IN IF m < 2 \/ vx * vy = 0 THEN [s |-> 0, q |-> NaN]
       ELSE [s |-> IF c > 0 THEN 1 ELSE IF c < 0 THEN -1 ELSE 0,
             q |-> Frac(c * c, vx * vy)]

\* np.arccos(R): the angle is held by its cosine
ArcCos(R) == [cos |-> R]
\* the literal angle 0 of the reference point
AngleZero == ArcCos([s |-> 1, q |-> One])

\* --------------------------------------------------- default palettes
MarkerRepeat == 100
MarkerBase == <<"o", "o", "s", "v", "o", "s", "v">>
DefaultMarkers ==
    [i \in 1..(Len(MarkerBase) * MarkerRepeat) |->
        MarkerBase[((i - 1) % Len(MarkerBase)) + 1]]
DefaultColors ==
    <<"tab:blue", "tab:red", "tab:red", "tab:red", "tab:green", "tab:green",
      "tab:green", "#1abc9c", "#2ecc71", "#3498db", "#9b59b6", "#34495e">>
DefaultMs == 10
DefaultScale == Frac(6 * 6, 5 * 5)

\* ------------------------------------------------------------- inputs
Figures == {1, 2}
Steps == {0, 1, 2}
Ramp(len, step) == [i \in 1..len |-> 1 + step * (i - 1)]
Zig(len) == [i \in 1..len |-> (i * i) % 5]
Pool(L) == {Ramp(L, s) : s \in Steps} \cup {Zig(L)}
AllSeries == UNION {Pool(L) : L \in 0..MaxLen}

ColumnNames ==
    <<"A", "B", "C", "D", "E", "F", "G", "H", "I", "J", "K", "L", "M", "N">>
CustomMarkers == <<"x", "+", "d", "*", "p">>
CustomColors == <<"c0", "c1", "c2", "c3", "c4">>
Prefixes(xs, maxlen) == {SubSeq(xs, 1, k) : k \in 0..maxlen}
Scales == {Frac(1, 4), DefaultScale, Frac(4, 1)}

RefOf(data) == [name |-> "ref", data |-> data]
\* a DataFrame: its columns in order, all of one length
Frame(names, datas) ==
    [j \in 1..Len(names) |-> [name |-> names[j], data |-> datas[j]]]
StatsCollections ==
    UNION {UNION {{Frame(SubSeq(ColumnNames, 1, n), f) : f \in [1..n -> Pool(L)]}
                  : n \in 0..MaxSamples} : L \in 0..MaxLen}
StyleSizes == (0..MaxSamples) \cup {Len(DefaultColors)}
StyleCollections ==
    UNION {{Frame([j \in 1..n |-> ColumnNames[IF rev THEN n + 1 - j ELSE j]],
                  [j \in 1..n |-> Ramp(MaxLen, 1 + (j % 2))])
            : rev \in BOOLEAN} : n \in StyleSizes}

Call(ax, cur, ref, samples, norm, markers, colors, scale) ==
    [ax |-> ax, cur |-> cur, ref |-> ref, samples |-> samples,
     Normalize |-> norm, markers |-> markers, colors |-> colors,
     scale |-> scale, ms |-> DefaultMs]
\* statistics vary, palettes are the defaults
StatsCalls ==
    {Call(1, 1, RefOf(r), S, nz, <<>>, <<>>, sc) :
        r \in AllSeries, S \in StatsCollections, nz \in BOOLEAN, sc \in Scales}
\* palettes and the number of columns vary
StyleCalls ==
    {Call(1, 1, RefOf(Ramp(MaxLen, 1)), S, FALSE, mk, cl, DefaultScale) :
        S \in StyleCollections,
        mk \in Prefixes(CustomMarkers, MaxSamples + 1),
        cl \in Prefixes(CustomColors, MaxSamples + 1)}
\* the figures vary; these calls are made one after the other.  A variant
\* is one sample under the default palettes or two under supplied ones
SeqVariant(v) ==
    [n |-> IF v THEN 1 ELSE 2,
     markers |-> IF v THEN <<>> ELSE CustomMarkers,
     colors |-> IF v THEN <<>> ELSE CustomColors]
SeqCalls ==
    {Call(ax, cur, RefOf(Ramp(MaxLen, 1)),
          Frame(SubSeq(ColumnNames, 1, SeqVariant(v).n),
                [j \in 1..SeqVariant(v).n |-> Ramp(MaxLen, j)]),
          FALSE, SeqVariant(v).markers, SeqVariant(v).colors, DefaultScale) :
        ax \in Figures, cur \in Figures, v \in BOOLEAN}
CallSequences ==
    {<<c>> : c \in StatsCalls \cup StyleCalls}
    \cup UNION {[1..k -> SeqCalls] : k \in 1..MaxCalls}

\* -------------------------------------------------------------- state
VARIABLES
    queue,      \* the constructor calls still to be made, in order
    pc,         \* where the running constructor stands
    self,       \* the TaylorDiagram under construction (its attributes)
    log,        \* the matplotlib calls the running constructor has made
    figs,       \* figure -> the axes added to it by add_axes, in order
    axisOn,     \* supplied axes (named by their figure) -> still visible
    done,       \* the constructor calls that returned or raised, in order
    libStrict   \* whether this matplotlib rejects NaN/inf axis limits
vars == <<queue, pc, self, log, figs, axisOn, done, libStrict>>

NoSelf ==
    [fig |-> 0, ax |-> 0, Normalize |-> FALSE, markers |-> <<>>,
     colors |-> <<>>, ms |-> 0, ref |-> RefOf(<<>>), scale |-> NaN,
     samples |-> <<>>, points |-> <<>>, refstdRaw |-> NaN, stdmax |-> NaN,
     Smax |-> NaN, refstd |-> NaN, k |-> 0, stds |-> <<>>, xlim |-> NaN]

Init ==
    /\ queue \in CallSequences
    /\ pc = "idle"
    /\ self = NoSelf
    /\ log = <<>>
    /\ figs = [f \in Figures |-> <<>>]
    /\ axisOn = [f \in Figures |-> TRUE]
    /\ done = <<>>
    /\ libStrict \in BOOLEAN

\* ------------------------------------------------------------ __init__
\* self.points = [] : a new list for every instance, whatever list the
\* previous instance (old) held
InitPointsShared(old) == old
InitPoints(old) == <<>>
\* markers if markers else [...] * 100 : None and the empty list both give
\* the defaults
Markers(c) == IF c.markers # <<>> THEN c.markers ELSE DefaultMarkers
Colors(c) == IF c.colors # <<>> THEN c.colors ELSE DefaultColors
\* plt.gcf(): the figure that is current when the constructor is called
Gcf(c) == c.cur

NewSelf(c, old) ==
    [NoSelf EXCEPT !.points = InitPoints(old.points),
                   !.Normalize = c.Normalize,
                   !.markers = Markers(c),
                   !.colors = Colors(c),
                   !.ms = c.ms,
                   !.ref = c.ref,
                   !.scale = c.scale,
                   !.samples = c.samples,
                   !.fig = Gcf(c),
                   !.ax = c.ax]

Begin ==
    /\ pc = "idle"
    /\ queue # <<>>
    /\ self' = NewSelf(Head(queue), self)
    /\ log' = <<>>
    /\ pc' = "step_up"
    /\ UNCHANGED <<queue, figs, axisOn, done, libStrict>>

\* the constructor returns (status "ok") or raises (status "ValueError")
Finish(status, s, l) ==
    /\ done' = Append(done, [call |-> Head(queue), status |-> status,
                             self |-> s, log |-> l])
    /\ queue' = Tail(queue)
    /\ self' = s
    /\ log' = l
    /\ pc' = "idle"

\* ------------------------------------------------------------- step_up
Event(op, arg) == [op |-> op, arg |-> arg]
\* ax.get_position().bounds of the supplied axes, named by the axes
Position(ax) == ax

\* [samples[col].std() for col in samples.columns] + [self._refstd]
StdListSamplesOnly(samples, refstdRaw) ==
    IF Len(samples) = 0 THEN <<refstdRaw>>
    ELSE [j \in 1..Len(samples) |-> Std(samples[j].data)]
StdList(samples, refstdRaw) ==
    [j \in 1..Len(samples) |-> Std(samples[j].data)] \o <<refstdRaw>>
StdMax(samples, refstdRaw) == PyMax(StdList(samples, refstdRaw))
SmaxIgnoringNormalize(norm, stdmax, scale) == Mul(stdmax, scale)
SmaxOf(norm, stdmax, scale) == Mul(IF norm THEN One ELSE stdmax, scale)
RefStdAlwaysRaw(norm, refstdRaw) == refstdRaw
RefStdOf(norm, refstdRaw) == IF norm THEN One ELSE refstdRaw

\* lines 86-107: ax.axis("off"), then the radial range
StepUpSetup ==
    /\ pc = "step_up"
    /\ axisOn' = [axisOn EXCEPT ![self.ax] = FALSE]
    /\ LET raw == Std(self.ref.data)
           smx == StdMax(self.samples, raw)
       IN self' = [self EXCEPT !.refstdRaw = raw,
                               !.stdmax = smx,
                               !.Smax = SmaxOf(self.Normalize, smx, self.scale),
                               !.refstd = RefStdOf(self.Normalize, raw)]
    /\ log' = Append(log, Event("axis_off", self.ax))
    /\ pc' = "frame"
    /\ UNCHANGED <<queue, figs, done, libStrict>>

\* the floating axes: where they are put and their radial extreme
FrameOf(s) == [fig |-> s.fig, pos |-> Position(s.ax), Smax |-> s.Smax]
\* matplotlib refuses NaN/inf limits in some versions
Rejected(v) == libStrict /\ ~IsFinite(v)

\* lines 109-144: grid helper, self.fig.add_axes(...), axis decoration
StepUpFrame ==
    /\ pc = "frame"
    /\ ~Rejected(self.Smax)
    /\ figs' = [figs EXCEPT ![self.fig] = Append(@, FrameOf(self))]
    /\ log' = Append(log, Event("add_axes", FrameOf(self)))
    /\ pc' = "arc"
    /\ UNCHANGED <<queue, self, axisOn, done, libStrict>>

StepUpFrameRaise ==
    /\ pc = "frame"
    /\ Rejected(self.Smax)
    /\ Finish("ValueError", self, log)
    /\ UNCHANGED <<figs, axisOn, libStrict>>

\* lines 146-148: the dashed arc at the reference standard deviation
StepUpArc ==
    /\ pc = "arc"
    /\ log' = Append(log, Event("plot_arc", self.refstd))
    /\ pc' = "contour"
    /\ UNCHANGED <<queue, self, figs, axisOn, done, libStrict>>

NLevels == 4
\* levels=np.linspace(0, self.scale, 4) if self.Normalize else 4
Levels(s) ==
    [linspace |-> s.Normalize, hi |-> IF s.Normalize THEN s.scale ELSE NaN,
     num |-> NLevels]

\* lines 150-163: the RMS contours around the reference point
StepUpContour ==
    /\ pc = "contour"
    /\ log' = Append(log, Event("contour",
                 [refstd |-> self.refstd, Smax |-> self.Smax,
                  levels |-> Levels(self)]))
    /\ pc' = "refpoint"
    /\ UNCHANGED <<queue, self, figs, axisOn, done, libStrict>>

Point(label, angle, radius, marker, color, ms, clip) ==
    [label |-> label, angle |-> angle, radius |-> radius, marker |-> marker,
     color |-> color, ms |-> ms, clip |-> clip]
\* self.ax.plot(0, self.refstd, marker=self.markers[0], ...)
RefPoint(s) ==
    Point(s.ref.name, AngleZero, s.refstd, s.markers[1], s.colors[1], s.ms,
          FALSE)

\* lines 165-177: the reference point, the first of self.points
StepUpRefPoint ==
    /\ pc = "refpoint"
    /\ self' = [self EXCEPT !.points = Append(@, RefPoint(self))]
    /\ log' = Append(log, Event("plot_point", RefPoint(self)))
    /\ pc' = "plot_sample"
    /\ UNCHANGED <<queue, figs, axisOn, done, libStrict>>

\* --------------------------------------------------------- plot_sample
\* calc_loc(x, y): theta = arccos(corr), r = y.std() or y.std()/self._refstd
calc_loc(s, x, y) ==
    [theta |-> ArcCos(Corr(x.data, y.data)),
     r |-> IF s.Normalize THEN Div(Std(y.data), s.refstdRaw)
           ELSE Std(y.data)]

\* zip(samples.columns, markers[1:], colors[1:]) stops with its shortest
ZipLen(s) ==
    Min2(Len(s.samples), Min2(Len(s.markers) - 1, Len(s.colors) - 1))
ZipItemReversed(s, k) ==
    [col |-> s.samples[Len(s.samples) + 1 - k], marker |-> s.markers[k + 1],
     color |-> s.colors[k + 1]]
ZipItem(s, k) ==
    [col |-> s.samples[k], marker |-> s.markers[k + 1],
     color |-> s.colors[k + 1]]
SamplePoint(s, k) ==
    LET z == ZipItem(s, k)
        loc == calc_loc(s, s.ref, z.col)
    IN Point(z.col.name, loc.theta, loc.r, z.marker, z.color, s.ms, TRUE)

\* lines 181-197: one turn of the loop
PlotSamplePoint ==
    /\ pc = "plot_sample"
    /\ self.k < ZipLen(self)
    /\ LET p == SamplePoint(self, self.k + 1)
       IN /\ self' = [self EXCEPT !.points = Append(@, p),
                                  !.stds = Append(@, p.radius),
                                  !.k = @ + 1]
          /\ log' = Append(log, Event("plot_point", p))
    /\ UNCHANGED <<queue, pc, figs, axisOn, done, libStrict>>

\* line 198: max(stds) raises on an empty list; set_xlim may refuse the limit
XlimRaises(s) == IF s.stds = <<>> THEN TRUE ELSE Rejected(PyMax(s.stds))

PlotSampleXlim ==
    /\ pc = "plot_sample"
    /\ self.k = ZipLen(self)
    /\ ~XlimRaises(self)
    /\ LET m == PyMax(self.stds)
       IN Finish("ok", [self EXCEPT !.xlim = m],
                 Append(log, Event("set_xlim", m)))
    /\ UNCHANGED <<figs, axisOn, libStrict>>

PlotSampleRaise ==
    /\ pc = "plot_sample"
    /\ self.k = ZipLen(self)
    /\ XlimRaises(self)
    /\ Finish("ValueError", self, log)
    /\ UNCHANGED <<figs, axisOn, libStrict>>

Next ==
    \/ Begin
    \/ StepUpSetup
    \/ StepUpFrame
    \/ StepUpFrameRaise
    \/ StepUpArc
    \/ StepUpContour
    \/ StepUpRefPoint
    \/ PlotSamplePoint
    \/ PlotSampleXlim
    \/ PlotSampleRaise

Spec == Init /\ [][Next]_vars

\* ------------------------------------------------------------- claims
\* every constructor call made so far: the finished ones and the running one
Views ==
    {done[i] : i \in 1..Len(done)}
    \cup (IF pc = "idle" THEN {}
          ELSE {[call |-> Head(queue), status |-> "running",
                 self |-> self, log |-> log]})
Finished == {done[i] : i \in 1..Len(done)}
\* step_up has computed the radial range
PastSetup(v) == v.log # <<>>
SeriesOf(c) == {c.ref.data} \cup {c.samples[j].data : j \in 1..Len(c.samples)}
\* every standard deviation is a number
AllStdDefined(c) == \A x \in SeriesOf(c) : Len(x) >= 2
\* a reference or sample is empty, or a sample is not as long as the reference
InvalidInput(c) ==
    \/ Len(c.ref.data) = 0
    \/ \E j \in 1..Len(c.samples) :
          \/ Len(c.samples[j].data) = 0
          \/ Len(c.samples[j].data) # Len(c.ref.data)
\* aligned series of at least two values, none of them constant
WellFormed(c) ==
    /\ ~InvalidInput(c)
    /\ \A x \in SeriesOf(c) : Len(x) >= 2 /\ Gt(Std(x), Zero)

\* C1: a diagram the constructor has returned holds n + 1 points: the
\* reference, then every sample, labelled in column order
C1_PointCount ==
    \A d \in Finished :
        LET n == Len(d.call.samples) IN
        d.status = "ok" =>
            /\ Len(d.self.points) = n + 1
            /\ d.self.points[1].label = d.call.ref.name
            /\ \A j \in 1..n :
                  d.self.points[j + 1].label = d.call.samples[j].name

\* C2: in a diagram the constructor has returned the reference point has
\* markers[0], colors[0] and the sample at position i has a point with
\* markers[i+1], colors[i+1]
C2_StyleByPosition ==
    \A d \in Finished :
        LET mk == Markers(d.call)
            cl == Colors(d.call)
            pts == d.self.points
        IN d.status = "ok" =>
            /\ Len(pts) >= 1
            /\ pts[1].marker = mk[1] /\ pts[1].color = cl[1]
            /\ \A j \in 1..Len(d.call.samples) :
                  /\ j + 1 <= Len(pts)
                  /\ j + 1 <= Len(mk) /\ pts[j + 1].marker = mk[j + 1]
                  /\ j + 1 <= Len(cl) /\ pts[j + 1].color = cl[j + 1]

\* C3: with an invalid input the constructor raises, and has called nothing
\* on matplotlib: the supplied axes are untouched, no frame is added,
\* nothing is drawn
C3_InvalidInputRejected ==
    \A v \in Views :
        InvalidInput(v.call) =>
            /\ v.log = <<>>
            /\ v.status # "ok"

\* the greatest of a set of numbers
MathMax(S) == CHOOSE m \in S : \A x \in S : Le(x, m)
\* C4: Smax = scale * max(std(ref), std(sample_1..n)) when Normalize is
\* false (every standard deviation being a number), scale * 1 when true
C4_Smax ==
    \A v \in Views :
        PastSetup(v) =>
            /\ v.call.Normalize => v.self.Smax = Mul(v.call.scale, One)
            /\ (~v.call.Normalize /\ AllStdDefined(v.call)) =>
                  v.self.Smax =
                      Mul(v.call.scale,
                          MathMax({Std(x) : x \in SeriesOf(v.call)}))
C4_Witness ==
    \E v \in Views :
        /\ PastSetup(v) /\ ~v.call.Normalize /\ AllStdDefined(v.call)
        /\ Len(v.call.samples) = 2
        /\ Gt(Std(v.call.samples[1].data), Std(v.call.ref.data))
        /\ Gt(Std(v.call.samples[1].data), Std(v.call.samples[2].data))
        /\ v.call.scale # One

CoversRawStd(v) ==
    \A x \in SeriesOf(v.call) : Le(Mul(v.call.scale, Std(x)), v.self.Smax)
\* C5 as stated: Smax >= scale * std(x) for the reference and every sample,
\* Normalize true or false (standard deviations being numbers)
C5_Original ==
    \A v \in Views :
        (PastSetup(v) /\ AllStdDefined(v.call)) => CoversRawStd(v)
\* C5 amended: the same when Normalize is false
C5_Amended ==
    \A v \in Views :
        (PastSetup(v) /\ AllStdDefined(v.call) /\ ~v.call.Normalize) =>
            CoversRawStd(v)
C5_Witness ==
    \E v \in Views :
        /\ PastSetup(v) /\ AllStdDefined(v.call) /\ ~v.call.Normalize
        /\ Len(v.call.samples) >= 1
        /\ \A j \in 1..Len(v.call.samples) :
              Gt(Std(v.call.ref.data), Std(v.call.samples[j].data))

\* C6: the reference point is at angle 0 and radius 1 (Normalize) or
\* std(ref) (otherwise), whatever the samples are
C6_ReferencePoint ==
    \A v \in Views :
        Len(v.self.points) >= 1 =>
            /\ v.self.points[1].angle = AngleZero
            /\ v.self.points[1].radius =
                  (IF v.call.Normalize THEN One ELSE Std(v.call.ref.data))
C6_Witness ==
    \E v \in Views :
        /\ Len(v.self.points) >= 2
        /\ v.call.Normalize
        /\ IsFinite(Std(v.call.ref.data))
        /\ Std(v.call.ref.data) # One
        /\ v.self.points[2].radius # One

SameInputs(c1, c2) ==
    /\ c1.ref = c2.ref /\ c1.samples = c2.samples
    /\ c1.Normalize = c2.Normalize /\ c1.scale = c2.scale /\ c1.ms = c2.ms
    /\ c1.markers = c2.markers /\ c1.colors = c2.colors
\* C7: two constructions from the same inputs and configuration end the
\* same way with equal point lists, whatever was built before or between
C7_Idempotent ==
    \A i, j \in 1..Len(done) :
        SameInputs(done[i].call, done[j].call) =>
            /\ done[i].status = done[j].status
            /\ done[i].self.points = done[j].self.points
C7_Witness ==
    /\ Len(done) = 3
    /\ SameInputs(done[1].call, done[3].call)
    /\ ~SameInputs(done[1].call, done[2].call)
    /\ done[1].call.markers = <<>> /\ done[1].call.colors = <<>>
    /\ done[3].status = "ok"
    /\ Len(done[3].self.points) = 2

\* the drawing calls of a log, by kind (and label, for a point)
IsDrawing(e) == e.op \in {"add_axes", "plot_arc", "contour", "plot_point"}
Tag(e) == IF e.op = "plot_point" THEN <<e.op, e.arg.label>> ELSE <<e.op, "">>
Drawn(l) ==
    LET d == SelectSeq(l, IsDrawing) IN [i \in 1..Len(d) |-> Tag(d[i])]
ExpectedOrder(c) ==
    <<<<"add_axes", "">>, <<"plot_arc", "">>, <<"contour", "">>,
      <<"plot_point", c.ref.name>>>>
    \o [j \in 1..Len(c.samples) |-> <<"plot_point", c.samples[j].name>>]
IsPrefix(a, b) == Len(a) <= Len(b) /\ a = SubSeq(b, 1, Len(a))
\* C8: frame, reference arc, contours, reference point, then the sample
\* points in column order: what has been drawn is always a prefix of that
C8_DrawingOrder ==
    \A v \in Views : IsPrefix(Drawn(v.log), ExpectedOrder(v.call))
C8_Witness ==
    \E d \in Finished :
        /\ d.status = "ok"
        /\ Len(d.call.samples) = 2
        /\ d.call.samples[1].name = ColumnNames[2]
        /\ Drawn(d.log) = ExpectedOrder(d.call)

\* C9: no point placed has a radius beyond Smax (inputs well formed; the
\* scale is taken >= 1 here, which only narrows the claim)
C9_PointsInsideFrame ==
    \A v \in Views :
        (WellFormed(v.call) /\ Le(One, v.call.scale)) =>
            \A i \in 1..Len(v.self.points) :
                Le(v.self.points[i].radius, v.self.Smax)

\* C10: every frame of a figure stands at the position of supplied axes of
\* that same figure
C10_FrameInOwnFigure ==
    \A f \in Figures : \A i \in 1..Len(figs[f]) : figs[f][i].pos = f
====
